---- MODULE Spec2Model ----
(***************************************************************************)
(* Model of linkedin/download.py: the retrying GET (trying_get), the       *)
(* manifest resolution (Downloader.get_manifest / get_quality), the        *)
(* fragment catalog built by Downloader.__init__, the frame source         *)
(* (Downloader._make_frame / _get_next_clip) and the run of main().        *)
(*                                                                         *)
(* Times (durations, t, limit) are integers in one fixed unit; responses   *)
(* of the network are inputs chosen by the actions that perform a fetch.   *)
(***************************************************************************)
EXTENDS Integers, Sequences, FiniteSets

VARIABLES
  \* ---- one call of trying_get (SpecTG) ----
  max_attempts,   \* parameter max_attempts
  wait,           \* parameter wait
  attempts,       \* local "attempts"
  tg_pc,          \* position inside trying_get
  hist,           \* outcome of every requests.get call made so far, in order
  sleeps,         \* argument of every sleep() call made so far, in order
  response,       \* value returned by trying_get
  raised,         \* exception that left trying_get
  \* ---- one run of main() (SpecGM: construction, SpecDL: whole run) ----
  pc,             \* position inside main / Downloader
  url,            \* the "url" local of get_manifest and __init__
  quality,        \* args.quality
  limit,          \* args.limit
  self_max_attempts, \* self._max_attempts
  self_wait,      \* self._wait
  depth,          \* number of nested get_manifest calls
  result,         \* the API response read by get_manifest ("result")
  lines,          \* the "lines" local of get_quality, then of __init__
  fetches,        \* every trying_get call made so far, in order
  paths,          \* self.paths
  times,          \* self.times
  duration,       \* self.duration
  pos,            \* self.pos
  clip,           \* self.clip
  current_clip,   \* self.current_clip: the resident VideoFileClip, or NoClip
  open_clips,     \* indexes of the fragments whose VideoFileClip is not closed
  mp4_files,      \* indexes of the fragments whose temporary .mp4 file exists
  wav_file,       \* TRUE when the file self.wav_file exists
  tmp_file,       \* TRUE when the temporary video written by download() exists
  out_file,       \* TRUE when the output file exists
  audio_file,     \* state of self.audio_file: "none", "open", "closed"
  audio_params,   \* parameters of self.audio_file, NoParams until set
  audio_frames,   \* frames written to self.audio_file, in order
  t_last,         \* argument of the latest _make_frame call
  increasing,     \* TRUE while every _make_frame call had a larger t than the one before
  frame,          \* the latest frame returned by _make_frame
  error,          \* exception that ended the run, "none" otherwise
  message         \* bitrates listed by the ArgumentError message, in order

tgvars == <<max_attempts, wait, attempts, tg_pc, hist, sleeps, response, raised>>

dlvars == <<pc, url, result, quality, limit, self_max_attempts, self_wait, depth, lines,
            fetches, paths, times, duration, pos, clip, current_clip, open_clips,
            mp4_files, wav_file, tmp_file, out_file, audio_file, audio_params,
            audio_frames, t_last, increasing, frame, error, message>>

vars == <<tgvars, dlvars>>

\* ------------------------------------------------------------------------
\* Bounds of the model
MaxAttemptsBound == 3     \* largest max_attempts explored
MaxWait == 2              \* largest wait explored
MaxTries == 4             \* cap on requests.get calls when the counter never reaches 0

\* Module defaults
MAX_ATTEMPTS == 10
WAIT == 10

None == [kind |-> "None", attempt |-> 0]

\* The exception object raised by the n-th requests.get call
ConnectionError(n) == [kind |-> "ConnectionError", attempt |-> n]
OtherError(n) == [kind |-> "OtherError", attempt |-> n]
\* The Response object returned by the n-th requests.get call
ResponseOf(n) == [kind |-> "Response", attempt |-> n]

\* ------------------------------------------------------------------------
\* Text of URLs and manifests.  A piece of text is a record <name>(<level>)<rest>;
\* a URL is the sequence of its "/"-separated pieces, a manifest the sequence
\* of its lines.
Piece(name, level, rest) == [name |-> name, level |-> level, rest |-> rest]
Seg(name) == Piece(name, 0, "")

ManifestRest == "/Manifest(video,format=m3u8-aapl)"
FragmentsRest == "/Fragments(video=0,format=m3u8-aapl)"
\* QualityLevels(<level>)/Manifest(...) and QualityLevels(<level>)/Fragments(...)
QualityLine(level, rest) == Piece("QualityLevels", level, rest)
StreamInfLine == Seg("#EXT-X-STREAM-INF:BANDWIDTH")
\* #EXTINF:<d>,no-desc   and   Fragments(video=<i>,format=m3u8-aapl)
ExtInfLine(d) == Piece("#EXTINF:", d, ",no-desc")
FragmentsLine(i) == Piece("Fragments", i, "")

\* line.startswith('QualityLevels')
StartsWithQualityLevels(line) == line.name = "QualityLevels"
\* line.startswith(f'QualityLevels({quality})/Manifest')
StartsWithQualityManifest(line, q) ==
  line.name = "QualityLevels" /\ line.level = q /\ line.rest = ManifestRest
\* int(re.sub(r'QualityLevels\(|\).*$', '', line))
LevelOf(line) == line.level

\* '/Manifest' in url
HasUpperManifest(u) ==
  \E i \in 1..Len(u) : (i > 1 /\ u[i].name = "Manifest") \/ u[i].rest = ManifestRest
\* '/manifest' in url
HasLowerManifest(u) ==
  \E i \in 2..Len(u) : u[i].name = "manifest"

\* re.sub('/[^/]+$', f'/{line}', url): the text after the last "/" becomes line
ReplaceLastSegment(u, line) ==
  LET last == u[Len(u)] IN
  IF last.rest \in {ManifestRest, FragmentsRest}
    THEN SubSeq(u, 1, Len(u) - 1) \o <<Piece(last.name, last.level, "/"), line>>
    ELSE SubSeq(u, 1, Len(u) - 1) \o <<line>>

\* re.sub('Manifest.*', '', url): the url is cut at its first "Manifest"
RECURSIVE StripManifest(_)
StripManifest(u) ==
  IF u = <<>> THEN <<>>
  ELSE IF Head(u).name = "Manifest" THEN <<>>
  ELSE IF Head(u).rest = ManifestRest
         THEN <<Piece(Head(u).name, Head(u).level, "/")>>
  ELSE <<Head(u)>> \o StripManifest(Tail(u))

\* Bounds of the Downloader model
MaxBitrate == 3      \* bitrates of the quality listing range over 1..MaxBitrate
MaxLines == 3        \* longest quality listing
MaxFrags == 3        \* most fragments of a manifest
MaxDur == 2          \* longest fragment
MaxLimit == 4        \* largest args.limit
MaxDepth == 2        \* deepest nesting of get_manifest calls explored

TerminalURL == <<Seg("https://host"), Seg("video.ism"), QualityLine(1, ManifestRest)>>
QualityURL == <<Seg("https://host"), Seg("video.ism"), Piece("manifest", 0, "(format=m3u8-aapl)")>>
LandingURL == <<Seg("https://www.linkedin.com"), Seg("posts"), Seg("a-post")>>
URLs == {TerminalURL, QualityURL, LandingURL}

ListingLines ==
  {StreamInfLine} \cup
  {QualityLine(b, r) : b \in 1..MaxBitrate, r \in {ManifestRest, FragmentsRest}}
SeqsUpTo(S, n) == UNION {[1..k -> S] : k \in 0..n}
Listings == SeqsUpTo(ListingLines, MaxLines)
DurSeqs == SeqsUpTo(1..MaxDur, MaxFrags)

\* The text of a fragment manifest whose fragments last durs[1], durs[2], ...
ManifestText(durs) ==
  [k \in 1..(2 * Len(durs) + 1) |->
     IF k = 1 THEN Seg("#EXTM3U")
     ELSE IF k % 2 = 0 THEN ExtInfLine(durs[k \div 2])
     ELSE FragmentsLine((k \div 2) - 1)]

Formats == {"44100Hz", "48000Hz"}
NoParams == "unset"
\* A decoded fragment: a VideoFileClip with its filename and duration
ClipOf(i, d) == [index |-> i, duration |-> d]
NoClip == [index |-> 0 - 1, duration |-> 0]
NoFrame == [clip |-> 0 - 1, t |-> 0]
NoResult == [fault |-> "unread", url |-> <<>>]
Fetch(target, i, m, w) == [target |-> target, index |-> i, max_attempts |-> m, wait |-> w]

RECURSIVE Sum(_)
Sum(s) == IF s = <<>> THEN 0 ELSE Head(s) + Sum(Tail(s))
Min(a, b) == IF a <= b THEN a ELSE b

\* [f(line) for line in lines if test(line)]
RECURSIVE FragmentLines(_)
FragmentLines(text) ==
  IF text = <<>> THEN <<>>
  ELSE IF Head(text).name = "Fragments"
         THEN <<Head(text)>> \o FragmentLines(Tail(text))
  ELSE FragmentLines(Tail(text))

RECURSIVE ExtInfValues(_)
ExtInfValues(text) ==
  IF text = <<>> THEN <<>>
  ELSE IF Head(text).name = "#EXTINF:"
         THEN <<Head(text).level>> \o ExtInfValues(Tail(text))
  ELSE ExtInfValues(Tail(text))

\* The variables of the Downloader before main() runs
DL_Idle ==
  /\ pc = "idle"
  /\ url = <<>>
  /\ quality = 0
  /\ limit = 0
  /\ self_max_attempts = 0
  /\ self_wait = 0
  /\ depth = 0
  /\ result = NoResult
  /\ lines = <<>>
  /\ fetches = <<>>
  /\ paths = <<>>
  /\ times = <<>>
  /\ duration = 0
  /\ pos = 0
  /\ clip = 0
  /\ current_clip = NoClip
  /\ open_clips = {}
  /\ mp4_files = {}
  /\ wav_file = FALSE
  /\ tmp_file = FALSE
  /\ out_file = FALSE
  /\ audio_file = "none"
  /\ audio_params = NoParams
  /\ audio_frames = <<>>
  /\ t_last = -1
  /\ increasing = TRUE
  /\ frame = NoFrame
  /\ error = "none"
  /\ message = <<>>

\* ------------------------------------------------------------------------
\* trying_get

\* The variables of trying_get in a run of main(), where every fetch is one step
TG_Idle ==
  /\ max_attempts = 0
  /\ wait = 0
  /\ attempts = 0
  /\ tg_pc = "idle"
  /\ hist = <<>>
  /\ sleeps = <<>>
  /\ response = None
  /\ raised = None

\* attempts = max_attempts
TG_Init ==
  /\ max_attempts \in (-1)..MaxAttemptsBound
  /\ wait \in 0..MaxWait
  /\ attempts = max_attempts
  /\ tg_pc = "while"
  /\ hist = <<>>
  /\ sleeps = <<>>
  /\ response = None
  /\ raised = None
  /\ DL_Idle

\* while attempts:   (an exhausted loop falls off the end of the function)
TG_While ==
  /\ tg_pc = "while"
  /\ IF attempts # 0
       THEN tg_pc' = "get"
       ELSE tg_pc' = "returned"
  /\ UNCHANGED <<max_attempts, wait, attempts, hist, sleeps, response, raised>>
  /\ UNCHANGED dlvars

\* Mutant: the successful response is stored but the loop goes on
TG_GetOk_NoReturn ==
  /\ tg_pc = "get"
  /\ (max_attempts < 0 => Len(hist) < MaxTries)
  /\ hist' = Append(hist, "ok")
  /\ response' = ResponseOf(Len(hist) + 1)
  /\ attempts' = attempts - 1
  /\ tg_pc' = IF attempts' = 0 THEN "returned" ELSE "while"
  /\ UNCHANGED <<max_attempts, wait, sleeps, raised>>
  /\ UNCHANGED dlvars

\* return requests.get(url, **kwargs)   -- the call succeeds
TG_GetOk ==
  /\ tg_pc = "get"
  /\ (max_attempts < 0 => Len(hist) < MaxTries)
  /\ hist' = Append(hist, "ok")
  /\ response' = ResponseOf(Len(hist) + 1)
  /\ tg_pc' = "returned"
  /\ UNCHANGED <<max_attempts, wait, attempts, sleeps, raised>>
  /\ UNCHANGED dlvars

\* Mutant: the error raised at exhaustion is a fresh generic one
TG_GetConnectionError_Generic ==
  /\ tg_pc = "get"
  /\ (max_attempts < 0 => Len(hist) < MaxTries)
  /\ hist' = Append(hist, "conn")
  /\ attempts' = attempts - 1
  /\ IF attempts' = 0
       THEN /\ raised' = ConnectionError(0)
            /\ tg_pc' = "raised"
       ELSE /\ raised' = raised
            /\ tg_pc' = "sleep"
  /\ UNCHANGED <<max_attempts, wait, sleeps, response>>
  /\ UNCHANGED dlvars

\* except (ConnectionError, MaxRetryError) as e: attempts -= 1;
\* if not attempts: raise e
TG_GetConnectionError ==
  /\ tg_pc = "get"
  /\ (max_attempts < 0 => Len(hist) < MaxTries)
  /\ hist' = Append(hist, "conn")
  /\ attempts' = attempts - 1
  /\ IF attempts' = 0
       THEN /\ raised' = ConnectionError(Len(hist) + 1)
            /\ tg_pc' = "raised"
       ELSE /\ raised' = raised
            /\ tg_pc' = "sleep"
  /\ UNCHANGED <<max_attempts, wait, sleeps, response>>
  /\ UNCHANGED dlvars

\* Mutant: every exception is caught and retried
TG_GetOtherError_Retried ==
  /\ tg_pc = "get"
  /\ (max_attempts < 0 => Len(hist) < MaxTries)
  /\ hist' = Append(hist, "other")
  /\ attempts' = attempts - 1
  /\ IF attempts' = 0
       THEN /\ raised' = OtherError(Len(hist) + 1)
            /\ tg_pc' = "raised"
       ELSE /\ raised' = raised
            /\ tg_pc' = "sleep"
  /\ UNCHANGED <<max_attempts, wait, sleeps, response>>
  /\ UNCHANGED dlvars

\* requests.get raises an exception the except clause does not name
TG_GetOtherError ==
  /\ tg_pc = "get"
  /\ (max_attempts < 0 => Len(hist) < MaxTries)
  /\ hist' = Append(hist, "other")
  /\ raised' = OtherError(Len(hist) + 1)
  /\ tg_pc' = "raised"
  /\ UNCHANGED <<max_attempts, wait, attempts, sleeps, response>>
  /\ UNCHANGED dlvars

\* sleep(wait)
TG_Sleep ==
  /\ tg_pc = "sleep"
  /\ sleeps' = Append(sleeps, wait)
  /\ tg_pc' = "while"
  /\ UNCHANGED <<max_attempts, wait, attempts, hist, response, raised>>
  /\ UNCHANGED dlvars

TG_Next ==
  \/ TG_While
  \/ TG_GetOk
  \/ TG_GetConnectionError
  \/ TG_GetOtherError
  \/ TG_Sleep

SpecTG == TG_Init /\ [][TG_Next]_vars

\* ------------------------------------------------------------------------
\* Helpers for the properties of trying_get
AllConn(h) == \A i \in 1..Len(h) : h[i] = "conn"
Front(h) == SubSeq(h, 1, Len(h) - 1)

\* C1. Retry exhaustion: with max_attempts >= 1 and every attempt failing with
\* a retryable connection error, trying_get makes exactly max_attempts
\* attempts, sleeps `wait` between consecutive attempts (max_attempts - 1
\* sleeps, none after the last failure) and raises the last attempt's error.
C1_RetryExhaustion ==
  (max_attempts >= 1 /\ AllConn(hist)) =>
    /\ Len(hist) <= max_attempts
    /\ \A i \in 1..Len(sleeps) : sleeps[i] = wait
    /\ Len(hist) = max_attempts =>
         /\ tg_pc = "raised"
         /\ raised = ConnectionError(max_attempts)
         /\ response = None
         /\ Len(sleeps) = max_attempts - 1
    /\ Len(hist) < max_attempts =>
         /\ tg_pc \in {"while", "get", "sleep"}
         /\ raised = None
         /\ Len(sleeps) = IF tg_pc = "sleep" THEN Len(hist) - 1 ELSE Len(hist)

C1_Witness ==
  /\ max_attempts >= 2
  /\ wait >= 1
  /\ AllConn(hist)
  /\ Len(hist) = max_attempts
  /\ tg_pc = "raised"

\* C2. Retry recovery: with max_attempts >= 1, when the first k < max_attempts
\* attempts fail with a retryable error and attempt k+1 succeeds, trying_get
\* returns that attempt's response, raises nothing, and attempts nothing more.
C2_RetryRecovery ==
  (max_attempts >= 1 /\ Len(hist) >= 1 /\ AllConn(Front(hist))
     /\ hist[Len(hist)] = "ok") =>
    /\ Len(hist) <= max_attempts
    /\ tg_pc = "returned"
    /\ response = ResponseOf(Len(hist))
    /\ raised = None
    /\ Len(sleeps) = Len(hist) - 1

C2_Witness ==
  /\ tg_pc = "returned"
  /\ Len(hist) >= 2
  /\ hist[Len(hist)] = "ok"
  /\ Len(hist) = max_attempts

\* C3. An attempt that fails with a failure other than a connection error
\* ends trying_get at once: that failure is raised after the attempt, with no
\* sleep and no further attempt, whatever number of attempts remains.
C3_OtherErrorPropagates ==
  \A i \in 1..Len(hist) :
    hist[i] = "other" =>
      /\ i = Len(hist)
      /\ tg_pc = "raised"
      /\ raised = OtherError(i)
      /\ response = None
      /\ Len(sleeps) = i - 1
      /\ attempts = max_attempts - (i - 1)

C3_Witness ==
  /\ tg_pc = "raised"
  /\ raised.kind = "OtherError"
  /\ Len(hist) >= 2
  /\ attempts >= 2

\* ------------------------------------------------------------------------
\* Downloader.get_quality, after the listing was fetched

RECURSIVE Insert(_, _)
Insert(x, s) ==
  IF s = <<>> THEN <<x>>
  ELSE IF x <= Head(s) THEN <<x>> \o s
  ELSE <<Head(s)>> \o Insert(x, Tail(s))

\* Mutant: the list is left in the order of the listing
Sort_Omitted(s) == s

\* available_qualities.sort()
RECURSIVE Sort(_)
Sort(s) == IF s = <<>> THEN <<>> ELSE Insert(Head(s), Sort(Tail(s)))

QualityFound(u) == [kind |-> "url", url |-> u, message |-> <<>>]
ArgumentError(available) == [kind |-> "ArgumentError", url |-> <<>>, message |-> available]

\* Mutant: the last piece of the url is kept and the line appended to it
get_quality_line_Appended(u, line) == QualityFound(u \o <<line>>)

\* return re.sub('/[^/]+$', f'/{line}', url)
get_quality_line(u, line) == QualityFound(ReplaceLastSegment(u, line))

\* The for loop over the lines, from line i on, and what follows it
RECURSIVE get_quality_from(_, _, _, _, _)
get_quality_from(u, q, ls, i, available_qualities) ==
  IF i > Len(ls)
    THEN ArgumentError(Sort(available_qualities))
  ELSE IF StartsWithQualityLevels(ls[i])
    THEN IF StartsWithQualityManifest(ls[i], q)
           THEN get_quality_line(u, ls[i])
           ELSE get_quality_from(u, q, ls, i + 1,
                                 Append(available_qualities, LevelOf(ls[i])))
  ELSE get_quality_from(u, q, ls, i + 1, available_qualities)

get_quality(u, q, ls) == get_quality_from(u, q, ls, 1, <<>>)

\* self.duration = min(sum(self.times), limit) if limit else sum(self.times)
Duration(ts, lim) == IF lim # 0 THEN Min(Sum(ts), lim) ELSE Sum(ts)

\* ------------------------------------------------------------------------
\* main(): with Downloader(url, max_attempts, wait, limit, quality) as d: d.download(file)

Policies == {[max_attempts |-> 1, wait |-> 0],
             [max_attempts |-> MaxAttemptsBound, wait |-> MaxWait]}

Limits == {-1, 0, MaxLimit}

\* main() up to the call of get_manifest at line 124, for the given url and quality
Start(u, q) ==
  /\ TG_Idle
  /\ pc = "get_manifest"
  /\ url = u
  /\ quality = q
  /\ limit \in Limits
  /\ \E p \in Policies : self_max_attempts = p.max_attempts /\ self_wait = p.wait
  /\ depth = 1
  /\ result = NoResult
  /\ lines = <<>>
  /\ fetches = <<>>
  /\ paths = <<>>
  /\ times = <<>>
  /\ duration = 0
  /\ pos = 0
  /\ clip = 0
  /\ current_clip = NoClip
  /\ open_clips = {}
  /\ mp4_files = {}
  /\ wav_file = FALSE
  /\ tmp_file = FALSE
  /\ out_file = FALSE
  /\ audio_file = "none"
  /\ audio_params = NoParams
  /\ audio_frames = <<>>
  /\ t_last = -1
  /\ increasing = TRUE
  /\ frame = NoFrame
  /\ error = "none"
  /\ message = <<>>

catalog == <<paths, times, duration>>
cursor == <<pos, clip, current_clip>>
artifacts == <<open_clips, mp4_files, wav_file, tmp_file, out_file>>
audio == <<audio_file, audio_params, audio_frames>>
calls == <<t_last, increasing, frame>>
args == <<quality, limit, self_max_attempts, self_wait>>

\* if '/Manifest' in url: return url
GM_Terminal ==
  /\ pc = "get_manifest"
  /\ UNCHANGED result
  /\ HasUpperManifest(url)
  /\ pc' = "fetch_manifest"
  /\ UNCHANGED <<url, depth, lines, fetches, error, message>>
  /\ UNCHANGED <<args, catalog, cursor, artifacts, audio, calls, tgvars>>

\* if '/manifest' in url: return self.get_quality(url, quality)
\* get_quality: r = trying_get(url, ...); lines = r.content...split('\n')
GM_Quality ==
  /\ pc = "get_manifest"
  /\ UNCHANGED result
  /\ ~HasUpperManifest(url)
  /\ HasLowerManifest(url)
  /\ fetches' = Append(fetches, Fetch("listing", 0, self_max_attempts, self_wait))
  /\ lines' \in Listings
  /\ pc' = "get_quality"
  /\ UNCHANGED <<url, depth, error, message>>
  /\ UNCHANGED <<args, catalog, cursor, artifacts, audio, calls, tgvars>>

\* get_quality: the for loop over the lines, then the return to __init__ or
\* the ArgumentError, which main() catches and prints; either way the frame
\* of get_quality and its list of lines are gone
GetQuality ==
  /\ pc = "get_quality"
  /\ UNCHANGED result
  /\ lines' = <<>>
  /\ LET r == get_quality(url, quality, lines) IN
       IF r.kind = "url"
         THEN /\ url' = r.url
              /\ pc' = "fetch_manifest"
              /\ UNCHANGED <<error, message>>
         ELSE /\ error' = "ArgumentError"
              /\ message' = r.message
              /\ pc' = "done"
              /\ url' = url
  /\ UNCHANGED <<depth, fetches, args, catalog, cursor, artifacts, audio, calls, tgvars>>

\* The fetch of the listing exhausts its attempts
GM_QualityFetchFails ==
  /\ pc = "get_manifest"
  /\ UNCHANGED result
  /\ ~HasUpperManifest(url)
  /\ HasLowerManifest(url)
  /\ fetches' = Append(fetches, Fetch("listing", 0, self_max_attempts, self_wait))
  /\ error' = "ConnectionError"
  /\ pc' = "done"
  /\ UNCHANGED <<url, depth, lines, message>>
  /\ UNCHANGED <<args, catalog, cursor, artifacts, audio, calls, tgvars>>

\* r = trying_get(url); cookie = [...][0]; id = self.get_video_id(r)
GM_LandingPage ==
  /\ pc = "get_manifest"
  /\ UNCHANGED result
  /\ ~HasUpperManifest(url)
  /\ ~HasLowerManifest(url)
  /\ fetches' = Append(fetches, Fetch("landing", 0, MAX_ATTEMPTS, WAIT))
  /\ \E page \in {"ok", "unreachable", "no JSESSIONID cookie", "no video id"} :
       CASE page = "ok" -> pc' = "api" /\ error' = error
         [] page = "unreachable" -> pc' = "done" /\ error' = "ConnectionError"
         [] OTHER -> pc' = "done" /\ error' = "IndexError"
  /\ UNCHANGED <<url, depth, lines, message>>
  /\ UNCHANGED <<args, catalog, cursor, artifacts, audio, calls, tgvars>>

\* The responses of the API: a JSON document that gives a URL, or one that
\* json.loads or the chain of subscripts of lines 235-236 rejects
ApiFaults == {"not JSON", "missing key", "empty adaptiveStreams", "empty masterPlaylists"}
ApiResults ==
  {[fault |-> "none", url |-> u] : u \in URLs} \cup {[fault |-> f, url |-> <<>>] : f \in ApiFaults}

\* Mutant: a response without the URL makes get_manifest ask the page again
ParseApi_Lenient(r) ==
  IF r.fault = "none" THEN [kind |-> "url", url |-> r.url]
  ELSE [kind |-> "url", url |-> LandingURL]

\* result = json.loads(r.content); metadata = result['content'][...][...]
\* url = metadata['adaptiveStreams'][0]['masterPlaylists'][0]['url']
ParseApi(r) ==
  CASE r.fault = "none" -> [kind |-> "url", url |-> r.url]
    [] r.fault = "not JSON" -> [kind |-> "error", error |-> "JSONDecodeError"]
    [] r.fault = "missing key" -> [kind |-> "error", error |-> "KeyError"]
    [] OTHER -> [kind |-> "error", error |-> "IndexError"]

\* r = trying_get(api url, max_attempts, wait, ...); result = json.loads(r.content)
\* url = result[...]...['adaptiveStreams'][0]['masterPlaylists'][0]['url']
\* return self.get_manifest(url, quality, max_attempts, wait)
GM_Api ==
  /\ pc = "api"
  /\ fetches' = Append(fetches, Fetch("api", 0, self_max_attempts, self_wait))
  /\ \/ /\ error' = "ConnectionError"
        /\ pc' = "done"
        /\ UNCHANGED <<url, depth, result>>
     \/ /\ result' \in ApiResults
        /\ LET parsed == ParseApi(result') IN
             IF parsed.kind = "url"
               THEN /\ depth < MaxDepth
                    /\ url' = parsed.url
                    /\ depth' = depth + 1
                    /\ pc' = "get_manifest"
                    /\ error' = error
               ELSE /\ error' = parsed.error
                    /\ pc' = "done"
                    /\ UNCHANGED <<url, depth>>
  /\ UNCHANGED <<lines, message>>
  /\ UNCHANGED <<args, catalog, cursor, artifacts, audio, calls, tgvars>>

\* Mutant: the subscript is not checked
Subscript_Unchecked(ps, i) == "ok"

\* self.paths[self.clip]: the outcome of the subscript on a list of Len(ps) entries
Subscript(ps, i) == IF i < Len(ps) THEN "ok" ELSE "IndexError"

\* Lines 125-137 of __init__, up to the evaluation of self.paths[self.clip]
Ctor_Catalog ==
  /\ pc = "fetch_manifest"
  /\ UNCHANGED result
  /\ fetches' = Append(fetches, Fetch("manifest", 0, self_max_attempts, self_wait))
  /\ \/ /\ error' = "ConnectionError"
        /\ pc' = "done"
        /\ UNCHANGED <<lines, catalog, pos, clip, wav_file, audio_file, audio_params>>
     \/ \E durs \in DurSeqs :
          LET text == ManifestText(durs)
              download_url == StripManifest(url)
              frags == FragmentLines(text)
              ts == <<0>> \o ExtInfValues(text)
          IN /\ lines' = text
             /\ paths' = [i \in 1..Len(frags) |-> [base |-> download_url, line |-> frags[i]]]
             /\ times' = ts
             /\ duration' = Duration(ts, limit)
             /\ pos' = 0
             /\ clip' = 0
             /\ audio_params' = NoParams
             /\ wav_file' = TRUE
             /\ audio_file' = "open"
             /\ IF Subscript(frags, 0) = "IndexError"
                  THEN error' = "IndexError" /\ pc' = "done"
                  ELSE error' = error /\ pc' = "ctor_clip"
  /\ UNCHANGED <<url, depth, message, args, current_clip, open_clips,
                 mp4_files, tmp_file, out_file, audio_frames, calls, tgvars>>

\* Mutant: the parameters are set from every fragment
SetParams_Always(params, fmt) == fmt

\* try: self.audio_file.getparams()
\* except wave.Error: self.audio_file.setparams(w.getparams())
SetParams(params, fmt) == IF params = NoParams THEN fmt ELSE params

\* _get_next_clip(self.paths[self.clip]): the fragment is fetched, written to a
\* temporary .mp4, decoded, and its audio appended to self.audio_file.  The
\* duration d of the clip is the one the decoder finds in the fragment.
GetNextClip ==
  /\ pc \in {"ctor_clip", "frame_clip"}
  /\ UNCHANGED result
  /\ fetches' = Append(fetches, Fetch("fragment", paths[clip + 1].line.level,
                                      self_max_attempts, self_wait))
  /\ mp4_files' = mp4_files \cup {clip}
  /\ open_clips' = open_clips \cup {clip}
  /\ \E fmt \in Formats :
       /\ audio_params' = SetParams(audio_params, fmt)
       /\ audio_frames' = Append(audio_frames, [fragment |-> clip, params |-> fmt])
  /\ \E d \in 1..MaxDur : current_clip' = ClipOf(clip, d)
  /\ IF pc = "ctor_clip"
       THEN pc' = "download" /\ frame' = frame
       ELSE pc' = "frames" /\ frame' = [clip |-> clip, t |-> t_last - pos]
  /\ UNCHANGED <<url, depth, lines, error, message, args, catalog, pos, clip, wav_file,
                 tmp_file, out_file, audio_file, t_last, increasing, tgvars>>

\* The fetch of the fragment exhausts its attempts.  In the constructor the
\* exception leaves main(); in download() it leaves through __exit__.
GetNextClipFails ==
  /\ pc \in {"ctor_clip", "frame_clip"}
  /\ UNCHANGED result
  /\ fetches' = Append(fetches, Fetch("fragment", paths[clip + 1].line.level,
                                      self_max_attempts, self_wait))
  /\ error' = "ConnectionError"
  /\ pc' = IF pc = "ctor_clip" THEN "done" ELSE "exit"
  /\ UNCHANGED <<url, depth, lines, message, args, catalog, cursor, artifacts, audio,
                 calls, tgvars>>

\* download(): tmp = mktemp('.mp4'); clip = VideoClip(self._make_frame, ...);
\* clip.write_videofile(tmp, ...) starts asking for frames
DownloadBegin ==
  /\ pc = "download"
  /\ UNCHANGED result
  /\ tmp_file' = TRUE
  /\ pc' = "frames"
  /\ UNCHANGED <<url, depth, lines, fetches, error, message, args, catalog, cursor,
                 open_clips, mp4_files, wav_file, out_file, audio, calls, tgvars>>

MaxT == MaxFrags * MaxDur

\* self.pos += self.current_clip.duration
AdvancePos(p, c) == p + c.duration

\* Mutant: the cursor jumps over a fragment
AdvanceClip_Skip(c) == c + 2

\* self.clip += 1
AdvanceClip(c) == c + 1

\* Mutant: a request on the end of the resident fragment advances too
Exceeds_Inclusive(c, t, p) == c.duration <= t - p

\* if self.current_clip.duration < t - self.pos:
Exceeds(c, t, p) == c.duration < t - p

\* Mutant: the resident clip is left as it is
Release_Omitted(resident, c) == resident

\* self.current_clip.close() on the open clips, and
\* remove(self.current_clip.filename) on the temporary .mp4 files
Release(resident, c) == resident \ {c.index}

\* _make_frame(t), up to the call of _get_next_clip when the cursor advances
MakeFrame ==
  /\ pc = "frames"
  /\ UNCHANGED result
  /\ \E t \in 0..MaxT :
       /\ t >= t_last
       /\ t = 0 \/ t < duration
       /\ t_last' = t
       /\ increasing' = (increasing /\ t > t_last)
       /\ IF Exceeds(current_clip, t, pos)
            THEN /\ pos' = AdvancePos(pos, current_clip)
                 /\ clip' = AdvanceClip(clip)
                 /\ open_clips' = Release(open_clips, current_clip)
                 /\ mp4_files' = Release(mp4_files, current_clip)
                 /\ frame' = frame
                 /\ IF Subscript(paths, clip') = "IndexError"
                      THEN error' = "IndexError" /\ pc' = "exit"
                      ELSE error' = error /\ pc' = "frame_clip"
            ELSE /\ frame' = [clip |-> current_clip.index, t |-> t - pos]
                 /\ UNCHANGED <<pos, clip, open_clips, mp4_files, error, pc>>
  /\ UNCHANGED <<url, depth, lines, fetches, message, args, catalog, current_clip,
                 wav_file, tmp_file, out_file, audio, tgvars>>

\* The rest of download(), once write_videofile(tmp) has all its frames:
\* self.audio_file.close(); the output file is written; remove_files(tmp, self.wav_file)
DownloadFinish ==
  /\ pc = "frames"
  /\ UNCHANGED result
  /\ audio_file' = "closed"
  /\ out_file' = TRUE
  /\ tmp_file' = FALSE
  /\ wav_file' = FALSE
  /\ pc' = "exit"
  /\ UNCHANGED <<url, depth, lines, fetches, error, message, args, catalog, cursor,
                 open_clips, mp4_files, audio_params, audio_frames, calls, tgvars>>

\* __exit__ -> close(): self.current_clip.close(); self.audio_file.close()
Exit ==
  /\ pc = "exit"
  /\ UNCHANGED result
  /\ open_clips' = open_clips \ {current_clip.index}
  /\ audio_file' = "closed"
  /\ pc' = "done"
  /\ UNCHANGED <<url, depth, lines, fetches, error, message, args, catalog, cursor,
                 mp4_files, wav_file, tmp_file, out_file, audio_params,
                 audio_frames, calls, tgvars>>

\* The construction of the Downloader, from any URL and quality
GM_Init == \E u \in URLs, q \in 1..MaxBitrate : Start(u, q)

GM_Next ==
  \/ GM_Terminal
  \/ GM_Quality
  \/ GetQuality
  \/ GM_QualityFetchFails
  \/ GM_LandingPage
  \/ GM_Api
  \/ Ctor_Catalog
  \/ GetNextClip
  \/ GetNextClipFails

SpecGM == GM_Init /\ [][GM_Next]_vars

\* The whole run of main() on the URL of a fragment manifest, where the
\* quality is not read
DL_Init == Start(TerminalURL, 1)

DL_Next ==
  \/ GM_Terminal
  \/ Ctor_Catalog
  \/ GetNextClip
  \/ GetNextClipFails
  \/ DownloadBegin
  \/ MakeFrame
  \/ DownloadFinish
  \/ Exit

SpecDL == DL_Init /\ [][DL_Next]_vars

\* ------------------------------------------------------------------------
\* Helpers for the properties of the Downloader
LastFetch == fetches[Len(fetches)].target
\* get_quality has returned or raised
ListingScanned ==
  /\ pc \in {"fetch_manifest", "done"}
  /\ fetches # <<>>
  /\ LastFetch = "listing"
  /\ error # "ConnectionError"
ListsBitrate(line, b) == line.name = "QualityLevels" /\ line.level = b
ListsManifestOf(line, b) == ListsBitrate(line, b) /\ line.rest = ManifestRest
Occurrences(s, x) == Cardinality({i \in 1..Len(s) : s[i] = x})
Listed(b) == Cardinality({i \in 1..Len(lines) : ListsBitrate(lines[i], b)})
NoArtifact ==
  /\ open_clips = {}
  /\ mp4_files = {}
  /\ ~wav_file
  /\ ~tmp_file
  /\ audio_file # "open"
\* Start time of fragment i (0-based) by the manifest: the sum of the #EXTINF
\* durations before it
StartOf(i) == Sum(SubSeq(times, 1, i + 1))
\* The resident fragment starts and lasts what the #EXTINF lines say
Consistent ==
  /\ current_clip.duration = times[current_clip.index + 2]
  /\ pos = StartOf(clip)
Constructed == current_clip # NoClip

\* C4 as stated: when the listing has an entry whose bitrate equals the requested
\* quality, get_quality returns the listing URL with its last path segment
\* replaced by that entry's line, and raises nothing.
C4_AnyEntryWithBitrate ==
  [][(pc = "get_quality"
       /\ \E i \in 1..Len(lines) : ListsBitrate(lines[i], quality))
     => /\ pc' = "fetch_manifest"
        /\ error' = "none"
        /\ \E i \in 1..Len(lines) :
             /\ ListsBitrate(lines[i], quality)
             /\ url' = SubSeq(url, 1, Len(url) - 1) \o <<lines[i]>>]_vars

\* C4, amended: when the listing has a line that begins with
\* QualityLevels(<quality>)/Manifest, get_quality returns the listing URL with
\* its last path segment replaced by the first such line, and raises nothing,
\* whatever other bitrates are listed and wherever the line stands.
C4_QualitySelected ==
  [][(pc = "get_quality"
       /\ \E i \in 1..Len(lines) : ListsManifestOf(lines[i], quality))
     => /\ pc' = "fetch_manifest"
        /\ error' = "none"
        /\ \E i \in 1..Len(lines) :
             /\ ListsManifestOf(lines[i], quality)
             /\ \A j \in 1..(i - 1) : ~ListsManifestOf(lines[j], quality)
             /\ url' = SubSeq(url, 1, Len(url) - 1) \o <<lines[i]>>]_vars

C4_Witness ==
  /\ ListingScanned
  /\ pc = "fetch_manifest"
  /\ error = "none"
  /\ quality = 2
  /\ ListsManifestOf(url[Len(url)], quality)

\* C5. Quality unavailable: when no entry of the listing has the requested
\* bitrate, get_quality fails with an ArgumentError whose message lists every
\* bitrate of the listing in ascending order, and the run ends with no fragment
\* fetched, no temporary file created and no output.
C5_QualityUnavailable ==
  /\ [][(pc = "get_quality"
          /\ \A i \in 1..Len(lines) : ~ListsBitrate(lines[i], quality))
        => /\ error' = "ArgumentError"
           /\ \A i, j \in 1..Len(message') : i < j => message'[i] <= message'[j]
           /\ \A b \in 1..MaxBitrate : Occurrences(message', b) = Listed(b)
           /\ \A i \in 1..Len(message') : message'[i] \in 1..MaxBitrate]_vars
  /\ [](error = "ArgumentError" =>
          /\ pc = "done"
          /\ \A i \in 1..Len(fetches) : fetches[i].target \notin {"manifest", "fragment"}
          /\ NoArtifact
          /\ audio_file = "none"
          /\ ~out_file)
    /\ ~out_file

C5_Witness ==
  /\ error = "ArgumentError"
  /\ pc = "done"
  /\ LastFetch = "listing"
  /\ quality = 2
  /\ message = <<1, 3, 3>>

\* C6. Active fragment: with strictly increasing t in [0, total duration), the
\* fragment used for the frame at t is the one i with
\* start(i) <= t < start(i + 1), also on a fragment boundary, and the fragment
\* used never goes back.
C6_ActiveFragment ==
  /\ []((pc = "frames" /\ frame # NoFrame /\ increasing /\ Consistent
          /\ t_last < Sum(times)) =>
          /\ StartOf(frame.clip) <= t_last
          /\ t_last < StartOf(frame.clip + 1))
  /\ [][(frame # NoFrame /\ increasing' /\ Consistent')
          => frame'.clip >= frame.clip]_vars

\* C7. Single residency: at most one fragment is decoded and at most one
\* temporary .mp4 exists at any time, both belong to the resident fragment, and
\* when the fetch of the next fragment begins the previous one is already
\* closed and its file removed.
C7_SingleResidency ==
  /\ Cardinality(open_clips) <= 1
  /\ Cardinality(mp4_files) <= 1
  /\ open_clips \subseteq {current_clip.index}
  /\ mp4_files \subseteq {current_clip.index}
  /\ pc = "frame_clip" => (open_clips = {} /\ mp4_files = {})

C7_Witness ==
  /\ pc = "frames"
  /\ clip = 2
  /\ open_clips = {2}
  /\ mp4_files = {2}

\* C8. Guaranteed cleanup: however the run of main ends, the resident fragment
\* is closed, its temporary .mp4 removed, the accumulated-audio .wav closed and
\* removed, and no temporary artifact survives.
C8_GuaranteedCleanup ==
  pc = "done" => NoArtifact

\* C9. Playback cursor: once the Downloader is constructed, 0 <= clip <
\* len(paths), pos is the sum of the durations of the fragments before clip
\* (0 at fragment 0, and one more duration with every fragment passed), and
\* neither clip nor pos ever decreases.
C9_CursorInvariant ==
  /\ [](Constructed =>
          /\ 0 <= clip
          /\ clip < Len(paths)
          /\ clip = 0 => pos = 0)
  /\ [][Constructed =>
          /\ clip' >= clip
          /\ pos' >= pos
          /\ clip' # clip => (clip' = clip + 1 /\ pos' = pos + current_clip.duration)
          /\ clip' = clip => pos' = pos]_vars

\* C10. Time-limit clamp: self.duration is min(sum of the #EXTINF durations,
\* limit) for a positive limit and the unclamped sum for every other limit,
\* and self.paths holds every fragment of the manifest whatever the limit.
C10_TimeLimitClamp ==
  paths # <<>> =>
    /\ duration = IF limit > 0 THEN Min(Sum(times), limit) ELSE Sum(times)
    /\ Len(paths) = Len(times) - 1

\* ------------------------------------------------------------------------
\* The manifest has been read and split into self.paths and self.times
CatalogBuilt == audio_file # "none"
NoFragmentLine == \A i \in 1..Len(lines) : lines[i].name # "Fragments"
FragmentFetches == SelectSeq(fetches, LAMBDA f : f.target = "fragment")

\* C11. Empty catalog is rejected: when the manifest has no line that begins
\* with Fragments, the construction of the Downloader fails with an error, no
\* fragment is fetched, and no Downloader with an empty self.paths is returned.
C11_EmptyCatalogRejected ==
  /\ (CatalogBuilt /\ NoFragmentLine) =>
        /\ error = "IndexError"
        /\ pc = "done"
        /\ current_clip = NoClip
        /\ FragmentFetches = <<>>
  /\ (Constructed \/ pc \in {"ctor_clip", "download"}) => paths # <<>>

C11_Witness ==
  /\ CatalogBuilt
  /\ NoFragmentLine
  /\ lines = <<Seg("#EXTM3U")>>
  /\ LastFetch = "manifest"
  /\ error = "IndexError"

\* Distance of a URL from the form get_manifest returns: 0 for a fragment
\* manifest, 1 for a quality listing, 2 for a page
Rank(u) == IF HasUpperManifest(u) THEN 0 ELSE IF HasLowerManifest(u) THEN 1 ELSE 2
LandingFetches == SelectSeq(fetches, LAMBDA f : f.target = "landing")

\* C12. Resolution terminates: every URL the API provides is strictly closer
\* to the quality-listing or fragment-manifest form than the URL that produced
\* it, so get_manifest takes a bounded number of landing-page steps (one) and
\* never recurses on a page again.
C12_ResolutionTerminates ==
  /\ [][depth' > depth => Rank(url') < Rank(url)]_vars
  /\ [](Len(LandingFetches) <= 1)

\* C13. Format mismatch: a later fragment whose audio format differs from the
\* format taken from the first fragment ends the run with a FormatMismatch
\* error, and its samples are never appended to the accumulated audio.
C13_FormatMismatchFatal ==
  /\ [](\A i \in 1..Len(audio_frames) : audio_frames[i].params = audio_params)
  /\ [][(/\ pc \in {"ctor_clip", "frame_clip"}
          /\ audio_params # NoParams
          /\ Len(audio_frames') > Len(audio_frames)
          /\ audio_frames'[Len(audio_frames')].params # audio_params)
        => error' = "FormatMismatch"]_vars

\* C14. Audio accumulator: the format parameters are unset until the first
\* fragment is decoded, are set once from that fragment and never change
\* afterwards; every _get_next_clip call only appends to the accumulated
\* samples.
C14_AudioAccumulator ==
  /\ [](audio_params = NoParams <=> audio_frames = <<>>)
  /\ [](audio_frames # <<>> => audio_params = audio_frames[1].params)
  /\ [][audio_params # NoParams => audio_params' = audio_params]_vars
  /\ [][\/ audio_frames' = audio_frames
        \/ /\ pc \in {"ctor_clip", "frame_clip"}
           /\ Len(audio_frames') = Len(audio_frames) + 1
           /\ SubSeq(audio_frames', 1, Len(audio_frames)) = audio_frames]_vars

C14_Witness ==
  /\ Len(audio_frames) = 3
  /\ audio_frames[1].params = "48000Hz"
  /\ audio_frames[2].params = "44100Hz"
  /\ audio_frames[3].params = "48000Hz"
  /\ audio_params = "48000Hz"

\* C15. Fetch and audio ordering: after construction and after every
\* _make_frame call that returns, the fragments fetched so far are the catalog
\* entries 0 .. self.clip, each fetched once and in catalog order, and the
\* accumulated audio is the audio of exactly those fragments in that order.
C15_FetchAndAudioOrder ==
  pc \in {"download", "frames"} =>
    /\ Len(FragmentFetches) = clip + 1
    /\ \A i \in 1..Len(FragmentFetches) : FragmentFetches[i].index = paths[i].line.level
    /\ \A i, j \in 1..Len(paths) : i # j => paths[i] # paths[j]
    /\ Len(audio_frames) = clip + 1
    /\ \A i \in 1..Len(audio_frames) : audio_frames[i].fragment = i - 1

C15_Witness ==
  /\ pc = "frames"
  /\ clip = 2
  /\ frame.clip = 2
  /\ Len(FragmentFetches) = 3
  /\ Len(audio_frames) = 3

\* The API response lacks a key of the path to the URL or has an empty list
Unparseable(r) == r.fault \in {"missing key", "empty adaptiveStreams", "empty masterPlaylists"}

\* C16. Unparseable API response: when the response of the API lacks a key of
\* the nested path or has an empty adaptiveStreams or masterPlaylists list,
\* get_manifest fails at once with an error, makes no further request and
\* does not recurse.
C16_UnparseableApiFatal ==
  /\ [][(pc = "api" /\ result' # result /\ Unparseable(result'))
        => /\ error' \in {"KeyError", "IndexError"}
           /\ pc' = "done"
           /\ depth' = depth
           /\ url' = url
           /\ fetches' = Append(fetches, Fetch("api", 0, self_max_attempts, self_wait))]_vars
  /\ [](Unparseable(result) =>
          /\ pc = "done"
          /\ error \in {"KeyError", "IndexError"}
          /\ LastFetch = "api")

C16_Witness ==
  /\ result.fault = "empty masterPlaylists"
  /\ error = "IndexError"
  /\ pc = "done"
  /\ depth = 2
  /\ Len(fetches) = 4

\* C17. Advance loop postcondition: when _make_frame(t) hands the request to
\* the resident fragment, the local time t - self.pos does not exceed that
\* fragment's duration, also when t has moved past more than one fragment
\* since the previous call.
C17_AdvanceLoopPostcondition ==
  (pc = "frames" /\ frame # NoFrame) =>
    /\ frame.clip = current_clip.index
    /\ frame.t = t_last - pos
    /\ frame.t <= current_clip.duration

\* C18. The caller's retry policy bounds every fetch: the landing page, the
\* API call, the quality listing, the fragment manifest and every fragment
\* are fetched with the max_attempts and the wait given to the Downloader,
\* never with the defaults of the module.
C18_CallerPolicyEverywhere ==
  \A i \in 1..Len(fetches) :
    /\ fetches[i].max_attempts = self_max_attempts
    /\ fetches[i].wait = self_wait

\* A step of _make_frame(t_last') up to its return or its call of _get_next_clip
MakeFrameStep == pc = "frames" /\ ~out_file'

\* C19. A frame request inside the resident fragment has no effect on state:
\* a _make_frame(t) call with t - self.pos not above the duration of the
\* resident fragment fetches nothing and leaves self.clip, self.pos, the
\* resident fragment and the accumulated audio as they are.
C19_FrameInsideResident ==
  [][(MakeFrameStep /\ t_last' - pos <= current_clip.duration)
     => /\ fetches' = fetches
        /\ clip' = clip
        /\ pos' = pos
        /\ current_clip' = current_clip
        /\ open_clips' = open_clips
        /\ mp4_files' = mp4_files
        /\ audio_params' = audio_params
        /\ audio_frames' = audio_frames
        /\ pc' = "frames"
        /\ frame' = [clip |-> current_clip.index, t |-> t_last' - pos]]_vars

C19_Witness ==
  /\ pc = "frames"
  /\ clip = 0
  /\ current_clip = ClipOf(0, 2)
  /\ t_last = 2
  /\ frame = [clip |-> 0, t |-> 2]
  /\ Len(fetches) = 2
  /\ Len(audio_frames) = 1

\* C20. trying_get always ends with a response or an error: for every integer
\* max_attempts, 0 and negative values included, a call that returns returns
\* the response of an attempt, and the attempts left are a positive count
\* while the call is still trying, so that the retries are bounded.
C20_ResponseOrError ==
  /\ tg_pc = "returned" => (response # None /\ hist # <<>>)
  /\ tg_pc \in {"get", "sleep"} => (attempts > 0 /\ Len(hist) + attempts = max_attempts)

====
